---- MODULE Spec2Model ----
(***************************************************************************)
(* Model of the AVI (VfW) input plug-in AviReader8.cpp: the FILE_HANDLE    *)
(* session record, func_open / func_close / func_info_get /               *)
(* func_read_video / func_read_audio, and the resources they acquire from  *)
(* the heap (GlobalAlloc/GlobalFree) and from the AVIFile service.         *)
(*                                                                         *)
(* The AVIFile service is external.  Its answers (does the file open, the  *)
(* type of each stream, does an allocation succeed, does a read succeed)   *)
(* are inputs chosen nondeterministically.  Every resource the plug-in     *)
(* acquires is a pair <<kind, n>>; rel counts how often it was released.   *)
(***************************************************************************)
EXTENDS Integers, Sequences, FiniteSets, TLC

\* ---- bounds of the model ------------------------------------------------
MaxStreams == 2     \* streams in one container (fileinfo.dwStreams)
MaxFrame   == 2     \* largest frame index / start sample the host asks for
MaxLength  == 2     \* largest sample count the host asks for

\* ---- FILE_HANDLE flag bits ------------------------------------------------
FLAG_VIDEO == 1
FLAG_AUDIO == 2

HasBit(flag, b) == (flag \div b) % 2 = 1
SetBit(flag, b) == IF HasBit(flag, b) THEN flag ELSE flag + b

\* ---- resources ------------------------------------------------------------
NULL      == <<"null", 0>>
Rec       == <<"rec", 0>>          \* the FILE_HANDLE block from GlobalAlloc
File      == <<"file", 0>>         \* the PAVIFILE from AVIFileOpen
Stream(i) == <<"stream", i>>       \* the PAVISTREAM of stream i (1-based)
Buf(i)    == <<"buf", i>>          \* the format buffer allocated for stream i

Streams == {Stream(i) : i \in 1..MaxStreams}
Bufs    == {Buf(i) : i \in 1..MaxStreams}
ResIds  == {Rec, File} \cup Streams \cup Bufs

\* ---- what the service reports about a container --------------------------
\* AVISTREAMINFO of stream i; the numbers identify the stream they came from.
ZeroInfo == [fccType |-> "none", dwRate |-> 0, dwScale |-> 0, dwLength |-> 0]

AVIStreamInfo(f, i) ==
    [fccType |-> f.streams[i].type, dwRate |-> 30 + i, dwScale |-> 1, dwLength |-> i]

\* size the service reports for the format of stream i
AVIStreamFormatSize(i) == 16 + i

\* WAVEFORMATEX.nBlockAlign the service writes into the format of stream i
BlockAlignOf(i) == 2 * i

\* One stream of a container with the outcome of the calls func_open makes on
\* it: does AVIFileGetStream succeed, the fccType, does GlobalAlloc of its
\* format buffer succeed.  Outcomes func_open never looks at are fixed.
StreamCases ==
    {[type |-> "other", getOK |-> g, allocOK |-> TRUE] : g \in BOOLEAN}
    \cup {[type |-> t, getOK |-> TRUE, allocOK |-> a] :
             t \in {"video", "audio"}, a \in BOOLEAN}

\* a call of func_open: does GlobalAlloc of the record succeed, does
\* AVIFileOpen, does AVIFileInfo, and the streams of the container
OpenCase(allocRec, openOK, infoOK, streams) ==
    [allocRec |-> allocRec, openOK |-> openOK, infoOK |-> infoOK,
     streams |-> streams]

NoFile == OpenCase(FALSE, FALSE, FALSE, <<>>)

Files ==
    {NoFile, OpenCase(TRUE, FALSE, FALSE, <<>>), OpenCase(TRUE, TRUE, FALSE, <<>>)}
    \cup UNION { {OpenCase(TRUE, TRUE, TRUE, ss) : ss \in [1..n -> StreamCases]} :
                 n \in 0..MaxStreams }

\* ---- the session record ---------------------------------------------------
ZeroFP ==
    [flag |-> 0, pfile |-> NULL, pvideo |-> NULL, paudio |-> NULL,
     dwStreams |-> 0, videoinfo |-> ZeroInfo, audioinfo |-> ZeroInfo,
     videoformat |-> NULL, videoformatsize |-> 0,
     audioformat |-> NULL, audioformatsize |-> 0]

\* ---- the effect of calls on the resources ---------------------------------
\* A run state st = [fp, acq, rel, written, setters, calls] is threaded through
\* a handler: fp the record, acq the resources acquired, rel the number of
\* release calls per resource, written the buffers a format was read into,
\* setters the streams whose branch set a capability flag, calls the log.
NoRel == [r \in ResIds |-> 0]

FreshRun ==
    [fp |-> ZeroFP, acq |-> {}, rel |-> NoRel, written |-> {},
     setters |-> {}, calls |-> <<>>]

Log(st, name, arg) ==
    [st EXCEPT !.calls = Append(@, [f |-> name, a |-> arg])]

Acquire(st, name, r) ==
    [Log(st, name, r) EXCEPT !.acq = @ \cup {r}]

\* a release call (AVIStreamRelease, AVIFileRelease, GlobalFree); on NULL the
\* call is made but no resource changes
Release(st, name, r) ==
    IF r = NULL THEN Log(st, name, r)
    ELSE [Log(st, name, r) EXCEPT !.rel[r] = @ + 1]

\* GlobalAlloc of the format buffer of stream i: the block or NULL
GlobalAllocFormat(f, i) == IF f.streams[i].allocOK THEN Buf(i) ELSE NULL

AllocFormat(st, f, i) ==
    IF f.streams[i].allocOK THEN Acquire(st, "GlobalAlloc", Buf(i))
    ELSE Log(st, "GlobalAlloc", NULL)

\* AVIStreamReadFormat into buffer b (with b = NULL only the size is set)
ReadFormat(st, b) ==
    IF b = NULL THEN Log(st, "AVIStreamReadFormat", b)
    ELSE [Log(st, "AVIStreamReadFormat", b) EXCEPT !.written = @ \cup {b}]

\* ---- func_open: the body of the stream loop, for stream i ----------------
OpenVideo(st, f, i) ==
    LET pas == Stream(i)
        s1  == [st EXCEPT !.fp.pvideo = pas,
                          !.fp.videoinfo = AVIStreamInfo(f, i),
                          !.fp.videoformatsize = AVIStreamFormatSize(i),
                          !.fp.videoformat = GlobalAllocFormat(f, i)]
        s2  == AllocFormat(s1, f, i)
    IN  IF s2.fp.videoformat # NULL
        THEN [ReadFormat(s2, s2.fp.videoformat)
                EXCEPT !.fp.flag = SetBit(@, FLAG_VIDEO),
                       !.setters = @ \cup {i}]
        ELSE Release(s2, "AVIStreamRelease", pas)

OpenAudio(st, f, i) ==
    LET pas == Stream(i)
        s1  == [st EXCEPT !.fp.paudio = pas,
                          !.fp.audioinfo = AVIStreamInfo(f, i),
                          !.fp.audioformatsize = AVIStreamFormatSize(i),
                          !.fp.audioformat = GlobalAllocFormat(f, i)]
        s2  == AllocFormat(s1, f, i)
    IN  IF s2.fp.videoformat # NULL      \* the source tests videoformat here
        THEN [ReadFormat(s2, s2.fp.audioformat)
                EXCEPT !.fp.flag = SetBit(@, FLAG_AUDIO),
                       !.setters = @ \cup {i}]
        ELSE Release(s2, "AVIStreamRelease", pas)

OpenStream(st, f, i) ==
    IF ~f.streams[i].getOK THEN st
    ELSE LET s1 == Acquire(st, "AVIFileGetStream", Stream(i))
             t  == AVIStreamInfo(f, i).fccType
         IN  CASE t = "video" -> OpenVideo(s1, f, i)
               [] t = "audio" -> OpenAudio(s1, f, i)
               [] OTHER       -> Release(s1, "AVIStreamRelease", Stream(i))

RECURSIVE OpenStreams(_, _, _)
OpenStreams(st, f, i) ==
    IF i > st.fp.dwStreams THEN st
    ELSE OpenStreams(OpenStream(st, f, i), f, i + 1)

\* func_open as it would be if the AVIFileOpen failure path returned without
\* GlobalFree(fp)
func_open_keepsRecord(f) ==
    IF ~f.allocRec
    THEN [ih |-> NULL, st |-> Log(FreshRun, "GlobalAlloc", NULL)]
    ELSE LET s0 == Acquire(FreshRun, "GlobalAlloc", Rec)
         IN  IF ~f.openOK
             THEN [ih |-> NULL, st |-> Log(s0, "AVIFileOpen", NULL)]
             ELSE LET s1 == [Acquire(s0, "AVIFileOpen", File)
                               EXCEPT !.fp.pfile = File]
                  IN  IF f.infoOK
                      THEN [ih |-> Rec,
                            st |-> OpenStreams(
                                     [s1 EXCEPT !.fp.dwStreams = Len(f.streams)],
                                     f, 1)]
                      ELSE [ih |-> Rec, st |-> s1]

\* ---- func_open: result [ih, st] ------------------------------------------
func_open(f) ==
    IF ~f.allocRec
    THEN [ih |-> NULL, st |-> Log(FreshRun, "GlobalAlloc", NULL)]
    ELSE LET s0 == Acquire(FreshRun, "GlobalAlloc", Rec)
         IN  IF ~f.openOK
             THEN [ih |-> NULL,
                   st |-> Release(Log(s0, "AVIFileOpen", NULL),
                                  "GlobalFree", Rec)]
             ELSE LET s1 == [Acquire(s0, "AVIFileOpen", File)
                               EXCEPT !.fp.pfile = File]
                  IN  IF f.infoOK
                      THEN [ih |-> Rec,
                            st |-> OpenStreams(
                                     [s1 EXCEPT !.fp.dwStreams = Len(f.streams)],
                                     f, 1)]
                      ELSE [ih |-> Rec, st |-> s1]

\* func_close as it would be with the video block ahead of the audio block
func_close_videoFirst(ih, fpv, st) ==
    IF ih # NULL
    THEN LET v == IF HasBit(fpv.flag, FLAG_VIDEO)
                  THEN Release(Release(st, "AVIStreamRelease", fpv.pvideo),
                               "GlobalFree", fpv.videoformat)
                  ELSE st
             a == IF HasBit(fpv.flag, FLAG_AUDIO)
                  THEN Release(Release(v, "AVIStreamRelease", fpv.paudio),
                               "GlobalFree", fpv.audioformat)
                  ELSE v
         IN  [ret |-> TRUE,
              st  |-> Release(Release(a, "AVIFileRelease", fpv.pfile),
                              "GlobalFree", ih)]
    ELSE [ret |-> TRUE, st |-> st]

\* func_close as it would be without the test of fp against null
func_close_noNullTest(ih, fpv, st) ==
    LET a == IF HasBit(fpv.flag, FLAG_AUDIO)
             THEN Release(Release(st, "AVIStreamRelease", fpv.paudio),
                          "GlobalFree", fpv.audioformat)
             ELSE st
        v == IF HasBit(fpv.flag, FLAG_VIDEO)
             THEN Release(Release(a, "AVIStreamRelease", fpv.pvideo),
                          "GlobalFree", fpv.videoformat)
             ELSE a
    IN  [ret |-> TRUE,
         st  |-> Release(Release(v, "AVIFileRelease", fpv.pfile),
                         "GlobalFree", ih)]

\* ---- func_close: the calls made on handle ih, whose block reads as fpv ----
func_close(ih, fpv, st) ==
    IF ih # NULL
    THEN LET a == IF HasBit(fpv.flag, FLAG_AUDIO)
                  THEN Release(Release(st, "AVIStreamRelease", fpv.paudio),
                               "GlobalFree", fpv.audioformat)
                  ELSE st
             v == IF HasBit(fpv.flag, FLAG_VIDEO)
                  THEN Release(Release(a, "AVIStreamRelease", fpv.pvideo),
                               "GlobalFree", fpv.videoformat)
                  ELSE a
         IN  [ret |-> TRUE,
              st  |-> Release(Release(v, "AVIFileRelease", fpv.pfile),
                              "GlobalFree", ih)]
    ELSE [ret |-> TRUE, st |-> st]

\* ---- func_info_get: the INPUT_INFO after the call -------------------------
ZeroIIP ==
    [flag |-> 0, rate |-> 0, scale |-> 0, n |-> 0,
     format |-> NULL, format_size |-> 0,
     audio_n |-> 0, audio_format |-> NULL, audio_format_size |-> 0]

func_info_get(fpv, iipv) ==
    LET i0 == [iipv EXCEPT !.flag = 0]
        i1 == IF HasBit(fpv.flag, FLAG_VIDEO)
              THEN [i0 EXCEPT !.flag = SetBit(@, FLAG_VIDEO),
                              !.rate = fpv.videoinfo.dwRate,
                              !.scale = fpv.videoinfo.dwScale,
                              !.n = fpv.videoinfo.dwLength,
                              !.format = fpv.videoformat,
                              !.format_size = fpv.videoformatsize]
              ELSE i0
    IN  IF HasBit(fpv.flag, FLAG_AUDIO)
        THEN [i1 EXCEPT !.flag = SetBit(@, FLAG_AUDIO),
                        !.audio_n = fpv.audioinfo.dwLength,
                        !.audio_format = fpv.audioformat,
                        !.audio_format_size = fpv.audioformatsize]
        ELSE i1

\* ---- AVIStreamRead: what the service may answer ---------------------------
\* An answer is [ok, bytes, samples]: the HRESULT being S_OK, *plBytes and
\* *plSamples.  On a live stream handle a read inside the stream may succeed
\* or fail and a read outside it fails; on a handle that was already released
\* the answer is arbitrary.
Failed == [ok |-> FALSE, bytes |-> 0, samples |-> 0]

Live(h, acqv, relv) == h \in acqv /\ relv[h] = 0

FrameBytes(h, frame) == 2 + h[2] + frame

MaxBytes == 2 + MaxStreams + MaxFrame

AnyAnswer ==
    {Failed} \cup {[ok |-> TRUE, bytes |-> b, samples |-> 1] : b \in {0, MaxBytes}}

\* video: one sample (frame) per call; the size query and the data read both
\* report the byte size of the frame
VideoAnswers(h, frame, acqv, relv) ==
    IF ~Live(h, acqv, relv) THEN AnyAnswer
    ELSE IF frame < h[2]               \* dwLength of stream i is i
         THEN {Failed, [ok |-> TRUE, bytes |-> FrameBytes(h, frame), samples |-> 1]}
         ELSE {Failed}

Min(a, b) == IF a < b THEN a ELSE b

\* audio: as many whole samples as are left in the stream and fit in cb bytes
AudioAnswers(h, start, length, cb, align, acqv, relv) ==
    IF ~Live(h, acqv, relv) THEN AnyAnswer
    ELSE IF start < h[2]
         THEN LET k == Min(Min(length, h[2] - start), cb \div align)
              IN  {Failed, [ok |-> TRUE, bytes |-> k * align, samples |-> k]}
         ELSE {Failed}

\* one AVIStreamRead call as logged: buf is "null" or "buf", cb the capacity
ReadCall(h, start, n, buf, cb, ans) ==
    [h |-> h, start |-> start, n |-> n, buf |-> buf, cb |-> cb, ans |-> ans]

\* ---- func_read_video: q answers the size query, r the data read ----------
func_read_video(fpv, frame, q, r) ==
    LET c1 == ReadCall(fpv.pvideo, frame, 1, "null", 0, q)
    IN  IF ~q.ok THEN [ret |-> 0, reads |-> <<c1>>]
        ELSE LET videosize == q.bytes
                 c2 == ReadCall(fpv.pvideo, frame, 1, "buf", videosize, r)
             IN  IF ~r.ok THEN [ret |-> 0, reads |-> <<c1, c2>>]
                 ELSE [ret |-> r.bytes, reads |-> <<c1, c2>>]

\* func_read_audio as it would be if size received *plBytes
func_read_audio_bytes(fpv, start, length, samplesize, r) ==
    LET c1 == ReadCall(fpv.paudio, start, length, "buf", samplesize * length, r)
    IN  IF ~r.ok THEN [ret |-> 0, reads |-> <<c1>>]
        ELSE [ret |-> r.bytes, reads |-> <<c1>>]

\* ---- func_read_audio: samplesize is nBlockAlign read through audioformat --
\* the 6th argument (plBytes) is NULL and size receives *plSamples
func_read_audio(fpv, start, length, samplesize, r) ==
    LET c1 == ReadCall(fpv.paudio, start, length, "buf", samplesize * length, r)
    IN  IF ~r.ok THEN [ret |-> 0, reads |-> <<c1>>]
        ELSE [ret |-> r.samples, reads |-> <<c1>>]

\* nBlockAlign as read through the pointer b: the value the service wrote, or
\* whatever the block holds when no format was read into it
BlockAligns(b, writtenv) ==
    IF b \in writtenv THEN {BlockAlignOf(b[2])}
    ELSE {BlockAlignOf(i) : i \in 1..MaxStreams}

\* ---- state ----------------------------------------------------------------
VARIABLES
    phase,      \* "unopened", "open", "closed", "reclosed", "faulted"
    file,       \* the container and call outcomes of the last func_open
    ih,         \* the INPUT_HANDLE the host holds (NULL or Rec)
    fp,         \* contents of the FILE_HANDLE block
    acq,        \* resources acquired since the last func_open
    rel,        \* release calls per resource since the last func_open
    written,    \* format buffers a format was read into
    leaked,     \* kinds of resources earlier rounds left held
    iip,        \* the host's INPUT_INFO
    last        \* the last call: [op, ret, calls, reads, setters]

vars == <<phase, file, ih, fp, acq, rel, written, leaked, iip, last>>

Held == {r \in acq : rel[r] = 0}

LastCall(op, ret, calls, reads, setters) ==
    [op |-> op, ret |-> ret, calls |-> calls, reads |-> reads, setters |-> setters]

Init ==
    /\ phase = "unopened"
    /\ file = NoFile
    /\ ih = NULL
    /\ fp = ZeroFP
    /\ acq = {}
    /\ rel = NoRel
    /\ written = {}
    /\ leaked = {}
    /\ iip = ZeroIIP
    /\ last = LastCall("none", NULL, <<>>, <<>>, {})

\* the run state of the current session
Run == [fp |-> fp, acq |-> acq, rel |-> rel, written |-> written,
        setters |-> {}, calls |-> <<>>]

\* host: ih = func_open(path), before any session or after one was closed;
\* what an earlier session left held is remembered by kind in leaked
Open ==
    /\ phase \in {"unopened", "closed"}
    /\ \E f \in Files :
         LET r == func_open(f)
         IN  /\ file' = f
             /\ ih' = r.ih
             /\ fp' = r.st.fp
             /\ acq' = r.st.acq
             /\ rel' = r.st.rel
             /\ written' = r.st.written
             /\ phase' = IF r.ih = NULL THEN "unopened" ELSE "open"
             /\ last' = LastCall("open", r.ih, r.st.calls, <<>>, r.st.setters)
    /\ leaked' = leaked \cup {r[1] : r \in Held}
    /\ iip' = ZeroIIP

\* host: func_info_get(ih, &iip) on the open session
GetInfo ==
    /\ phase = "open"
    /\ iip' = func_info_get(fp, iip)
    /\ last' = LastCall("info", TRUE, <<>>, <<>>, {})
    /\ UNCHANGED <<phase, file, ih, fp, acq, rel, written, leaked>>

\* host: func_read_video(ih, frame, buf), once GetInfo reported video
ReadVideo ==
    /\ phase = "open"
    /\ HasBit(iip.flag, FLAG_VIDEO)
    /\ \E frame \in 0..MaxFrame :
         \E q \in VideoAnswers(fp.pvideo, frame, acq, rel) :
           \E r \in VideoAnswers(fp.pvideo, frame, acq, rel) :
             LET res == func_read_video(fp, frame, q, r)
             IN  last' = LastCall("read_video", res.ret, <<>>, res.reads, {})
    /\ UNCHANGED <<phase, file, ih, fp, acq, rel, written, leaked, iip>>

\* host: func_read_audio(ih, start, length, buf), once GetInfo reported audio;
\* reading nBlockAlign through a NULL audioformat ends the process
ReadAudio ==
    /\ phase = "open"
    /\ HasBit(iip.flag, FLAG_AUDIO)
    /\ IF fp.audioformat = NULL
       THEN /\ phase' = "faulted"
            /\ last' = LastCall("read_audio_fault", NULL, <<>>, <<>>, {})
       ELSE /\ phase' = phase
            /\ \E start \in 0..MaxFrame, length \in 1..MaxLength :
                 \E samplesize \in BlockAligns(fp.audioformat, written) :
                   \E r \in AudioAnswers(fp.paudio, start, length,
                                         samplesize * length, samplesize, acq, rel) :
                     LET res == func_read_audio(fp, start, length, samplesize, r)
                     IN  last' = LastCall("read_audio", res.ret, <<>>, res.reads, {})
    /\ UNCHANGED <<file, ih, fp, acq, rel, written, leaked, iip>>

\* host: func_close(ih) on the open session; the host drops the INPUT_INFO it
\* got for the session
Close ==
    /\ phase = "open"
    /\ LET r == func_close(ih, fp, Run)
       IN  /\ acq' = r.st.acq
           /\ rel' = r.st.rel
           /\ last' = LastCall("close", r.ret, r.st.calls, <<>>, {})
    /\ phase' = "closed"
    /\ iip' = ZeroIIP
    /\ UNCHANGED <<file, ih, fp, written, leaked>>

\* host: func_close(NULL)
CloseNull ==
    /\ phase \in {"unopened", "open"}
    /\ LET r == func_close(NULL, ZeroFP, Run)
       IN  /\ acq' = r.st.acq
           /\ rel' = r.st.rel
           /\ last' = LastCall("close_null", r.ret, r.st.calls, <<>>, {})
    /\ UNCHANGED <<phase, file, ih, fp, written, leaked, iip>>

\* host: func_close(ih) again on a handle already closed.  The block was
\* freed: flag reads as any value, the other fields as they were left.
CloseStale ==
    /\ phase = "closed"
    /\ ih # NULL
    /\ \E g \in 0..(FLAG_VIDEO + FLAG_AUDIO) :
         LET r == func_close(ih, [fp EXCEPT !.flag = g], Run)
         IN  /\ acq' = r.st.acq
             /\ rel' = r.st.rel
             /\ last' = LastCall("close_stale", r.ret, r.st.calls, <<>>, {})
    /\ phase' = "reclosed"
    /\ UNCHANGED <<file, ih, fp, written, leaked, iip>>

Next ==
    \/ Open
    \/ GetInfo
    \/ ReadVideo
    \/ ReadAudio
    \/ Close
    \/ CloseNull
    \/ CloseStale

Spec == Init /\ [][Next]_vars

\* ---- vocabulary of the properties ----------------------------------------
Indexes(f) == 1..Len(f.streams)

OfType(f, t) == {i \in Indexes(f) : f.streams[i].type = t}

FirstOfType(f, t) == CHOOSE i \in OfType(f, t) : \A j \in OfType(f, t) : i <= j

Called(calls, name, arg) ==
    \E k \in 1..Len(calls) : calls[k] = [f |-> name, a |-> arg]

\* the calls func_close is to make on a session whose record reads as fpv
CloseOrder(fpv) ==
    (IF HasBit(fpv.flag, FLAG_AUDIO)
     THEN <<[f |-> "AVIStreamRelease", a |-> fpv.paudio],
            [f |-> "GlobalFree", a |-> fpv.audioformat]>>
     ELSE <<>>)
    \o (IF HasBit(fpv.flag, FLAG_VIDEO)
        THEN <<[f |-> "AVIStreamRelease", a |-> fpv.pvideo],
               [f |-> "GlobalFree", a |-> fpv.videoformat]>>
        ELSE <<>>)
    \o <<[f |-> "AVIFileRelease", a |-> fpv.pfile],
         [f |-> "GlobalFree", a |-> Rec]>>

\* func_read_video returned after a size query with a null buffer and, only if
\* that succeeded, a data read with the queried size as capacity; 0 when a
\* call failed, otherwise the byte count of the data read
VideoReadProtocol ==
    LET rs == last.reads
    IN  /\ Len(rs) >= 1
        /\ rs[1].buf = "null"
        /\ ~rs[1].ans.ok => (Len(rs) = 1 /\ last.ret = 0)
        /\ rs[1].ans.ok =>
              /\ Len(rs) = 2
              /\ rs[2].buf = "buf"
              /\ rs[2].cb = rs[1].ans.bytes
              /\ last.ret = IF rs[2].ans.ok THEN rs[2].ans.bytes ELSE 0

\* func_read_audio returned after one read with capacity sampleCount x
\* nBlockAlign of the cached audio format
AudioReadIssued ==
    LET rs == last.reads
    IN  /\ Len(rs) = 1
        /\ rs[1].buf = "buf"
        /\ rs[1].cb \in {rs[1].n * a : a \in BlockAligns(fp.audioformat, written)}

\* ---- C1 -------------------------------------------------------------------
\* C1 (as claimed): when a container holds two or more streams of one type,
\* the open session has released every later stream of that type, holds at
\* most one stream handle of that type, and GetInfo reports the length and the
\* format blob of the first stream of that type.  Stated here only for
\* containers whose format-buffer allocations all succeed, where the first
\* stream of a type is the one a session claims.
C1_FirstStreamRetained ==
    (phase = "open" /\ \A i \in Indexes(file) : file.streams[i].allocOK) =>
      \A t \in {"video", "audio"} :
        Cardinality(OfType(file, t)) >= 2 =>
          LET first == FirstOfType(file, t)
          IN  /\ \A j \in OfType(file, t) \ {first} : rel[Stream(j)] >= 1
              /\ Cardinality({j \in OfType(file, t) : Stream(j) \in Held}) <= 1
              /\ (last.op = "info" /\ t = "video" /\ HasBit(iip.flag, FLAG_VIDEO))
                   => (iip.n = AVIStreamInfo(file, first).dwLength
                       /\ iip.format = Buf(first))
              /\ (last.op = "info" /\ t = "audio" /\ HasBit(iip.flag, FLAG_AUDIO))
                   => (iip.audio_n = AVIStreamInfo(file, first).dwLength
                       /\ iip.audio_format = Buf(first))

\* ---- C2 -------------------------------------------------------------------
\* C2 (as claimed): for a file that opens, with at least one video or audio
\* stream and every format-buffer allocation succeeding, Open returns a
\* non-null handle and GetInfo reports the video flag iff the file has a video
\* stream and the audio flag iff it has an audio stream.
C2_FlagsMatchStreams ==
    ( /\ file.allocRec /\ file.openOK /\ file.infoOK
      /\ OfType(file, "video") \cup OfType(file, "audio") # {}
      /\ \A i \in Indexes(file) : file.streams[i].getOK /\ file.streams[i].allocOK
      /\ last.op \in {"open", "info"} )
    => /\ ih # NULL
       /\ last.op = "info" =>
            /\ HasBit(iip.flag, FLAG_VIDEO) <=> (OfType(file, "video") # {})
            /\ HasBit(iip.flag, FLAG_AUDIO) <=> (OfType(file, "audio") # {})

\* ---- C3 -------------------------------------------------------------------
\* C3 (as claimed): once Close has returned, nothing an Open acquired is still
\* held, in this round or any earlier one.
C3_NoLeakAfterClose ==
    phase = "closed" => (Held = {} /\ leaked = {})

\* ---- C4 -------------------------------------------------------------------
\* C4 (as claimed): when the format-buffer allocation of a video or audio
\* stream fails during Open, that stream does not set its capability flag, its
\* stream handle is released during Open, and Open returns a non-null Session.
C4_AllocFailureDegrades ==
    (last.op = "open" /\ file.allocRec /\ file.openOK) =>
      /\ ih # NULL
      /\ \A i \in Indexes(file) :
           (file.streams[i].type \in {"video", "audio"} /\ ~file.streams[i].allocOK)
           => /\ i \notin last.setters
              /\ Called(last.calls, "AVIStreamRelease", Stream(i))

\* ---- C5 -------------------------------------------------------------------
\* C5 (as claimed): in an open session a set video flag implies a non-null
\* video stream handle and a non-null video format blob whose length is what
\* the service reported for that stream; the same for audio.
C5_FlagImpliesHandles ==
    phase = "open" =>
      /\ HasBit(fp.flag, FLAG_VIDEO) =>
           /\ fp.pvideo # NULL
           /\ fp.videoformat # NULL
           /\ fp.videoformatsize = AVIStreamFormatSize(fp.pvideo[2])
      /\ HasBit(fp.flag, FLAG_AUDIO) =>
           /\ fp.paudio # NULL
           /\ fp.audioformat # NULL
           /\ fp.audioformatsize = AVIStreamFormatSize(fp.paudio[2])

\* ---- C6 -------------------------------------------------------------------
\* C6: when Open fails because the record cannot be allocated or the service
\* cannot open the path, it returns null, no session exists and nothing the
\* call acquired (record, file handle) is still held.
C6_FailedOpenHoldsNothing ==
    (last.op = "open" /\ (~file.allocRec \/ ~file.openOK)) =>
      /\ last.ret = NULL
      /\ ih = NULL
      /\ phase = "unopened"
      /\ Held = {}

\* C6 witness: the service refused the path after the record was allocated,
\* and the record was freed.
C6_Witness ==
    /\ last.op = "open"
    /\ file.allocRec /\ ~file.openOK
    /\ Rec \in acq /\ rel[Rec] = 1

\* ---- C7 -------------------------------------------------------------------
\* C7: Close on a non-null session releases the audio stream handle then the
\* audio format blob (only with the audio flag), the video stream handle then
\* the video format blob (only with the video flag), the file handle and last
\* the record, and returns true.
C7_CloseOrder ==
    last.op = "close" => (last.ret = TRUE /\ last.calls = CloseOrder(fp))

\* C7 witness: a session with both capabilities was closed.
C7_Witness ==
    /\ last.op = "close"
    /\ HasBit(fp.flag, FLAG_AUDIO) /\ HasBit(fp.flag, FLAG_VIDEO)
    /\ Len(last.calls) = 6

\* ---- C8 -------------------------------------------------------------------
\* C8 (as claimed): Close with a null handle and Close with the handle of an
\* already closed session both report success and make no release call.
C8_NullOrStaleCloseIsNoOp ==
    last.op \in {"close_null", "close_stale"} =>
      (last.ret = TRUE /\ last.calls = <<>>)

\* C8 (amended): Close with a null handle reports success and makes no release
\* call.
C8_NullCloseIsNoOp ==
    last.op = "close_null" => (last.ret = TRUE /\ last.calls = <<>>)

\* C8 witness: Close(null) was called while a session held resources.
C8_Witness ==
    /\ last.op = "close_null"
    /\ phase = "open"
    /\ {Rec, File} \subseteq Held

C10_NoDoubleRelease ==
    phase \in {"open", "closed"} =>
      /\ \A s \in Streams : rel[s] <= 1
      /\ phase = "open" =>
           /\ HasBit(fp.flag, FLAG_VIDEO) => rel[fp.pvideo] = 0
           /\ HasBit(fp.flag, FLAG_AUDIO) => rel[fp.paudio] = 0

====
